---- MODULE Spec2Model ----
(***************************************************************************)
(* Model of script/process.py: CSV rows describing devices are validated   *)
(* by DEVICE_SCHEMA and merged by process_row into one info.yaml document  *)
(* per devices/<integration>/<manufacturer>/<model> directory;             *)
(* process_file iterates the rows of one file and process() iterates the   *)
(* files of to_process/.                                                   *)
(*                                                                         *)
(* Python values are tagged records: None is [t |-> "none"], a bool is     *)
(* [t |-> "bool", v |-> b] and a str is [t |-> "str", v |-> s] where s is  *)
(* the sequence of its characters.  A key a dict does not have is simply   *)
(* not in the DOMAIN of the function that models the dict.                 *)
(***************************************************************************)
EXTENDS Integers, Sequences, FiniteSets, TLC

(* ------------------------------ bounds --------------------------------- *)

\* number of *.csv files in to_process/
MaxFiles == 2

\* number of data lines read in one run, all files together
MaxLines == 2

(* --------------------------- python values ----------------------------- *)

None == [t |-> "none"]

Bool(b) == [t |-> "bool", v |-> b]

Str(s) == [t |-> "str", v |-> s]

\* csv.DictReader puts the surplus cells of a long line in a list
List(s) == [t |-> "list", v |-> s]

\* Python truthiness of None, bool and str (and list)
Truthy(x) ==
    CASE x.t = "none" -> FALSE
      [] x.t = "bool" -> x.v
      [] x.t = "str"  -> x.v # <<>>
      [] x.t = "list" -> x.v # <<>>

(* ------------------------------ texts ---------------------------------- *)

HUE == <<"h", "u", "e">>
WLED == <<"w", "l", "e", "d">>
FRITZ == <<"f", "r", "i", "t", "z">>
DEMO == <<"d", "e", "m", "o">>
NONE_TEXT == <<"N", "o", "n", "e">>
TRUE_TEXT == <<"T", "r", "u", "e">>
FALSE_TEXT == <<"F", "a", "l", "s", "e">>
LOWER_TRUE_TEXT == <<"t", "r", "u", "e">>
DEVICE == <<"d", "e", "v", "i", "c", "e">>
SERVICE == <<"s", "e", "r", "v", "i", "c", "e">>
ACME == <<"A", "c", "m", "e">>
OTHER_TEXT == <<"O", "t", "h", "e", "r">>
LCT == <<"L", "C", "T">>
SLASH == <<"/">>
UNDERSCORE == <<"_">>
EMPTY == <<>>
V10 == <<"1", ".", "0">>
REV2 == <<"r", "e", "v", "2">>

(* ------------------------- module level data --------------------------- *)

\* the keys of https://www.home-assistant.io/integrations.json
INTEGRATIONS_INFO == {HUE, WLED, FRITZ}

\* the catalog without the manual filter
APPROVED_INTEGRATIONS_Unfiltered == INTEGRATIONS_INFO

APPROVED_INTEGRATIONS == {domain \in INTEGRATIONS_INFO : domain \notin {WLED, FRITZ}}

\* template/info.yaml, the document copytree puts in a new device directory
TemplateInfo ==
    [manufacturer_raw |-> None, model_raw |-> None,
     manufacturer_name |-> None, model_name |-> None,
     has_via_device |-> None, has_suggested_area |-> None,
     has_configuration_url |-> None, entry_type |-> None,
     versions |-> <<>>]

(* ---------------------------- UpdateRecord ----------------------------- *)

UpdateRecord == [created |-> 0, updated |-> 0, ignored |-> 0]

Add(self, other) ==
    [created |-> self.created + other.created,
     updated |-> self.updated + other.updated,
     ignored |-> self.ignored + other.ignored]

(* ----------------------------- converters ------------------------------ *)

str_or_none(value) == IF value = Str(NONE_TEXT) THEN None ELSE value

\* a parser that takes true in lower case as well
bool_AnyCase(value) == Bool(value \in {Str(TRUE_TEXT), Str(LOWER_TRUE_TEXT)})

bool(value) == Bool(value = Str(TRUE_TEXT))

\* the columns of the schema, in the order the input files have them
SchemaKeys ==
    <<"integration", "manufacturer", "model", "sw_version", "hw_version",
      "has_via_device", "has_suggested_area", "has_configuration_url",
      "entry_type">>

SchemaKeySet == {SchemaKeys[i] : i \in DOMAIN SchemaKeys}

StrKeys == {"integration", "manufacturer", "model"}

BoolKeys == {"has_via_device", "has_suggested_area", "has_configuration_url"}

\* voluptuous: a type in a schema is an isinstance check
IsStr(value) == value.t = "str"

Convert(key, value) ==
    IF key \in StrKeys THEN value
    ELSE IF key \in BoolKeys THEN bool(value)
    ELSE str_or_none(value)

\* vol.Schema(dict) with its defaults required=False, extra=PREVENT_EXTRA:
\* a key the data lacks is not an error, a key the schema lacks is one, and
\* each value present goes through the validator of its key.
SchemaAccepts(raw) ==
    /\ DOMAIN raw \subseteq SchemaKeySet
    /\ \A key \in DOMAIN raw \cap StrKeys : IsStr(raw[key])

DEVICE_SCHEMA(raw) == [key \in DOMAIN raw |-> Convert(key, raw[key])]

(* ------------------------------- paths --------------------------------- *)

\* str.replace("/", "_")
RECURSIVE Replace(_)
Replace(s) ==
    IF s = <<>> THEN <<>>
    ELSE <<IF Head(s) = "/" THEN "_" ELSE Head(s)>> \o Replace(Tail(s))

\* pathlib: joining an empty segment leaves the path as it is
Join(path, segment) == IF segment = <<>> THEN path ELSE Append(path, segment)

\* model_dir relative to DEVICES_DIR, as the sequence of its segments
ModelDir(row) ==
    Join(Join(Join(<<>>, row["integration"].v),
              Replace(row["manufacturer"].v)),
         Replace(row["model"].v))

IsPrefix(p, q) == Len(p) <= Len(q) /\ SubSeq(q, 1, Len(p)) = p

\* model_dir.exists(): the directory of a document or one of its parents.
\* A tree maps the directories that hold an info.yaml to its content.
Exists(tree, path) == \E q \in DOMAIN tree : IsPrefix(path, q)

\* a copytree that leaves nothing but the new directory
CopyTree_Replace(tree, path) == (path :> TemplateInfo)

\* shutil.copytree(TEMPLATE_DIR, model_dir)
CopyTree(tree, path) == (path :> TemplateInfo) @@ tree

\* info_path.write_text(yaml.dump(info))
WriteText(tree, path, info) == [tree EXCEPT ![path] = info]

(* ----------------------------- process_row ----------------------------- *)

FieldPairs ==
    << <<"manufacturer", "manufacturer_raw">>,
       <<"model", "model_raw">>,
       <<"manufacturer", "manufacturer_name">>,
       <<"model", "model_name">>,
       <<"has_via_device", "has_via_device">>,
       <<"has_suggested_area", "has_suggested_area">>,
       <<"has_configuration_url", "has_configuration_url">>,
       <<"entry_type", "entry_type">> >>

InfoKeys == {FieldPairs[i][2] : i \in DOMAIN FieldPairs}

\* a merge that overwrites whatever the document holds
InfoIsFalsy_Always(value) == TRUE

\* line 141: "not info[info_key]", the left operand of the and
InfoIsFalsy(value) == ~Truthy(value)

\* a test that lets every value but None through
RowIsTruthy_NotNone(value) == value # None

\* line 141: "row[row_key]", the right operand of the and
RowIsTruthy(value) == Truthy(value)

\* lines 131-143, from pair i on.  st = [info, changed, raised]; raised is
\* the KeyError of row[row_key], which is evaluated only when the left
\* operand of the and is true.
RECURSIVE MergeFields(_, _, _)
MergeFields(row, st, i) ==
    IF i > Len(FieldPairs) THEN st
    ELSE LET row_key == FieldPairs[i][1]
             info_key == FieldPairs[i][2]
         IN  IF ~InfoIsFalsy(st.info[info_key]) THEN MergeFields(row, st, i + 1)
             ELSE IF row_key \notin DOMAIN row THEN [st EXCEPT !.raised = TRUE]
             ELSE IF RowIsTruthy(row[row_key])
                  THEN MergeFields(row,
                                   [st EXCEPT !.info[info_key] = row[row_key],
                                              !.changed = TRUE],
                                   i + 1)
                  ELSE MergeFields(row, st, i + 1)

Absent == [t |-> "absent"]

\* lines 145-149; a key the dict does not get is Absent
Version(row) ==
    [software |-> IF Truthy(row["sw_version"]) THEN row["sw_version"] ELSE Absent,
     hardware |-> IF Truthy(row["hw_version"]) THEN row["hw_version"] ELSE Absent]

\* a membership test that never finds the record
VersionIn_Never(version, versions) == FALSE

\* a membership test that compares the software key only
VersionIn_SoftwareOnly(version, versions) ==
    \E i \in DOMAIN versions : versions[i].software = version.software

\* line 151: version in info["versions"]
VersionIn(version, versions) == \E i \in DOMAIN versions : versions[i] = version

\* an insertion at the head of the list
AppendVersion_Front(versions, version) == <<version>> \o versions

\* line 152: info["versions"].append(version)
AppendVersion(versions, version) == Append(versions, version)

\* a merge without the default
DefaultEntryType_Missing(row) == row

\* a default for None only, not for the empty string
DefaultEntryType_NoneOnly(row) ==
    IF row["entry_type"] = None
    THEN [row EXCEPT !["entry_type"] = Str(DEVICE)]
    ELSE row

\* line 128-129
DefaultEntryType(row) ==
    IF ~Truthy(row["entry_type"])
    THEN [row EXCEPT !["entry_type"] = Str(DEVICE)]
    ELSE row

\* line 115
IsApproved(row) == row["integration"].v \in APPROVED_INTEGRATIONS

\* a merge that writes the document whether it changed or not
MustWrite_Always(created, changed) == TRUE

\* line 155: the condition of the write
MustWrite(created, changed) == changed

\* an update count that forgets the directory was just created
UpdatedCount_IgnoresCreated(created, changed) == IF changed THEN 1 ELSE 0

\* lines 158-159
UpdatedCount(created, changed) == IF changed /\ created = 0 THEN 1 ELSE 0

\* What one call does: raised (an exception left the call), the tree it
\* leaves, the UpdateRecord it returns, and the number of exists() checks,
\* copytree calls, reads and writes it made.
Result(raised, tree, rec, checks, scaffolds, reads, writes) ==
    [raised |-> raised, tree |-> tree, rec |-> rec, checks |-> checks,
     scaffolds |-> scaffolds, reads |-> reads, writes |-> writes]

process_row(row, tree) ==
    IF ~(StrKeys \subseteq DOMAIN row)
    THEN \* KeyError in lines 110-112
         Result(TRUE, tree, UpdateRecord, 0, 0, 0, 0)
    ELSE
    LET model_dir == ModelDir(row) IN
    IF ~IsApproved(row)
    THEN Result(FALSE, tree, [UpdateRecord EXCEPT !.ignored = 1], 0, 0, 0, 0)
    ELSE
    LET existed == Exists(tree, model_dir)
        tree1 == IF existed THEN tree ELSE CopyTree(tree, model_dir)
        created == IF existed THEN 0 ELSE 1
        scaffolds == created
    IN
    IF model_dir \notin DOMAIN tree1
    THEN \* FileNotFoundError in line 125: a directory without info.yaml
         Result(TRUE, tree1, UpdateRecord, 1, scaffolds, 0, 0)
    ELSE
    IF "entry_type" \notin DOMAIN row
    THEN \* KeyError in line 128
         Result(TRUE, tree1, UpdateRecord, 1, scaffolds, 1, 0)
    ELSE
    LET row1 == DefaultEntryType(row)
        st == MergeFields(row1,
                          [info |-> tree1[model_dir], changed |-> FALSE,
                           raised |-> FALSE], 1)
    IN
    IF st.raised \/ ~({"sw_version", "hw_version"} \subseteq DOMAIN row1)
    THEN \* KeyError in line 141, 146 or 148
         Result(TRUE, tree1, UpdateRecord, 1, scaffolds, 1, 0)
    ELSE
    LET version == Version(row1)
        append == ~VersionIn(version, st.info.versions)
        info == IF append
                THEN [st.info EXCEPT !.versions = AppendVersion(@, version)]
                ELSE st.info
        changed == st.changed \/ append
        write == MustWrite(created, changed)
    IN  Result(FALSE,
               IF write THEN WriteText(tree1, model_dir, info) ELSE tree1,
               [created |-> created,
                updated |-> UpdatedCount(created, changed),
                ignored |-> 0],
               1, scaffolds, 1, IF write THEN 1 ELSE 0)

(* ------------------------------ the input ------------------------------ *)

\* the cell texts a column takes in the input files; the first one is the
\* cell of the base line
ColumnValues(key) ==
    CASE key = "integration"  -> <<HUE, WLED, DEMO>>
      [] key = "manufacturer" -> <<ACME, SLASH, UNDERSCORE, EMPTY>>
      [] key = "model"        -> <<LCT, EMPTY>>
      [] key = "sw_version"   -> <<NONE_TEXT, V10>>
      [] key = "hw_version"   -> <<NONE_TEXT, REV2>>
      [] key = "entry_type"   -> <<NONE_TEXT, SERVICE, EMPTY>>
      [] key = "has_via_device" -> <<FALSE_TEXT, TRUE_TEXT, LOWER_TRUE_TEXT>>
      [] OTHER                -> <<FALSE_TEXT, TRUE_TEXT>>

Range(seq) == {seq[i] : i \in DOMAIN seq}

\* the header lines: all nine columns, or one of them left out
Without(seq, key) == SelectSeq(seq, LAMBDA k : k # key)

\* the columns some input file lacks
LackedKeys == {"model", "has_suggested_area"}

Headers == {SchemaKeys} \cup {Without(SchemaKeys, key) : key \in LackedKeys}

BaseLine(fieldnames) ==
    [i \in DOMAIN fieldnames |-> ColumnValues(fieldnames[i])[1]]

\* the data lines: the base line with at most one cell changed, the base
\* line cut short, and the base line with one cell too many
Lines(fieldnames) ==
    LET base == BaseLine(fieldnames) IN
    UNION {{[base EXCEPT ![i] = c] : c \in Range(ColumnValues(fieldnames[i]))} :
              i \in DOMAIN fieldnames}
    \cup {SubSeq(base, 1, n) : n \in {2, Len(base) - 1} \cap DOMAIN base}
    \cup {Append(base, EMPTY)}

\* the key csv.DictReader files surplus cells under (restkey=None)
RestKey == "<restkey>"

\* csv.DictReader: dict(zip(fieldnames, cells)), restval=None for the
\* columns a short line lacks, the surplus of a long line under restkey
DictRow(fieldnames, cells) ==
    LET lf == Len(fieldnames)
        lr == Len(cells)
        keys == Range(fieldnames) \cup (IF lf < lr THEN {RestKey} ELSE {})
        Index(key) == CHOOSE i \in DOMAIN fieldnames : fieldnames[i] = key
    IN  [key \in keys |->
            IF key = RestKey THEN List(SubSeq(cells, lf + 1, lr))
            ELSE IF Index(key) > lr THEN None
            ELSE Str(cells[Index(key)])]

\* the dicts DictReader yields for the data lines of the input files
RawRows ==
    UNION {{DictRow(fieldnames, cells) : cells \in Lines(fieldnames)} :
              fieldnames \in Headers}

\* the columns of the header a dict of DictReader was read under
ColumnsOf(raw) == DOMAIN raw \ {RestKey}

\* the header a dict of DictReader was read under
HeaderOf(raw) == CHOOSE header \in Headers : Range(header) = ColumnsOf(raw)

(* --------------------------- the devices tree -------------------------- *)

EmptyTree == [path \in {} |-> TemplateInfo]

\* a document edited by hand: some fields set, some falsy but not null
CuratedInfo ==
    [manufacturer_raw |-> Str(ACME), model_raw |-> None,
     manufacturer_name |-> Str(OTHER_TEXT), model_name |-> Str(EMPTY),
     has_via_device |-> Bool(FALSE), has_suggested_area |-> Bool(TRUE),
     has_configuration_url |-> None, entry_type |-> Str(SERVICE),
     versions |-> <<[software |-> Str(V10), hardware |-> Absent]>>]

\* the devices/ trees a run starts from
StartTrees ==
    {EmptyTree,
     (<<HUE, ACME, LCT>> :> CuratedInfo) @@ (<<HUE, LCT, ACME>> :> TemplateInfo)}

(* ------------------------------ the state ------------------------------ *)

Files == 1 .. MaxFiles

VARIABLES
    tree,        \* devices/: directory of a document |-> its info.yaml
    pc,          \* "process", "process_file" or "done"
    pending,     \* the files glob has not yielded yet
    path,        \* the file process_file is reading (0: none)
    fieldnames,  \* the header line of that file
    lineno,      \* the number of its data lines read
    nlines,      \* the number of data lines read in this run
    file_total,  \* total of process_file
    total,       \* total of process
    attempts,    \* file |-> number of calls of process_file
    outcome,     \* file |-> "pending", "Done" or "Error", as printed
    returned,    \* file |-> the UpdateRecord process_file returned
    last,        \* the last data line read and what became of it
    merged,      \* directory |-> the (integration, manufacturer, model) of
                 \* the rows merged into its document in this run
    batch        \* the run of the script (first or second), what the
                 \* input files hold when that is fixed beforehand, the
                 \* tree the first run started from and the tree it left

vars ==
    <<tree, pc, pending, path, fieldnames, lineno, nlines, file_total, total,
      attempts, outcome, returned, last, merged, batch>>

NoRow ==
    [kind |-> "none", file |-> 0, raw |-> <<>>,
     before |-> EmptyTree,
     res |-> Result(FALSE, EmptyTree, UpdateRecord, 0, 0, 0, 0)]

Init ==
    /\ tree \in StartTrees
    /\ pc = "process"
    /\ pending = Files
    /\ path = 0
    /\ fieldnames = <<>>
    /\ lineno = 0
    /\ nlines = 0
    /\ file_total = UpdateRecord
    /\ total = UpdateRecord
    /\ attempts = [f \in Files |-> 0]
    /\ outcome = [f \in Files |-> "pending"]
    /\ returned = [f \in Files |-> UpdateRecord]
    /\ last = NoRow
    /\ merged = [dir \in {} |-> {}]
    /\ batch = [run |-> 1, mode |-> "first", files |-> <<>>,
                start |-> tree, first |-> EmptyTree]

\* the identity of the device a row describes
Triple(row) == <<row["integration"].v, row["manufacturer"].v, row["model"].v>>

\* one more row merged into the document of dir
Record(map, dir, triple) ==
    IF dir \in DOMAIN map
    THEN [map EXCEPT ![dir] = @ \cup {triple}]
    ELSE (dir :> {triple}) @@ map

(* ------------------------------- process ------------------------------- *)

\* line 75-78 and 89-92: glob yields a file and process_file opens it
Open(f) ==
    /\ pc = "process"
    /\ f \in pending
    /\ pending' = pending \ {f}
    /\ path' = f
    /\ fieldnames' = <<>>
    /\ lineno' = 0
    /\ file_total' = UpdateRecord
    /\ attempts' = [attempts EXCEPT ![f] = @ + 1]
    /\ pc' = "process_file"
    /\ UNCHANGED <<tree, nlines, total, outcome, returned, last, merged,
                   batch>>

\* The files are numbered in the order glob yields them; what a file
\* holds is chosen as it is read.
OpenFile(f) ==
    /\ \A g \in pending : f <= g
    /\ Open(f)

\* a handler that keeps what the file had counted before it failed
Abort_KeepsPartial ==
    /\ outcome' = [outcome EXCEPT ![path] = "Error"]
    /\ pc' = "process"
    /\ path' = 0
    /\ fieldnames' = <<>>
    /\ lineno' = 0
    /\ file_total' = UpdateRecord
    /\ total' = Add(total, file_total)
    /\ UNCHANGED <<pending, attempts, returned, batch>>

\* lines 79-80: the exception leaves process_file and process catches it
Abort ==
    /\ outcome' = [outcome EXCEPT ![path] = "Error"]
    /\ pc' = "process"
    /\ path' = 0
    /\ fieldnames' = <<>>
    /\ lineno' = 0
    /\ file_total' = UpdateRecord
    /\ UNCHANGED <<pending, total, attempts, returned, batch>>

\* lines 94-99: DEVICE_SCHEMA raises vol.Invalid
InvalidRow(raw) ==
    /\ pc = "process_file"
    /\ nlines < MaxLines
    /\ nlines' = nlines + 1
    /\ ~SchemaAccepts(raw)
    /\ last' = [kind |-> "invalid", file |-> path,
                raw |-> raw, before |-> tree,
                res |-> Result(TRUE, tree, UpdateRecord, 0, 0, 0, 0)]
    /\ UNCHANGED <<tree, merged>>
    /\ Abort

\* line 101: process_row raises (KeyError, FileNotFoundError)
FailedRow(raw) ==
    /\ pc = "process_file"
    /\ nlines < MaxLines
    /\ nlines' = nlines + 1
    /\ SchemaAccepts(raw)
    /\ LET res == process_row(DEVICE_SCHEMA(raw), tree) IN
       /\ res.raised
       /\ tree' = res.tree
       /\ last' = [kind |-> "failed", file |-> path,
                   raw |-> raw, before |-> tree, res |-> res]
    /\ UNCHANGED merged
    /\ Abort

\* lines 95 and 101: the row is valid and process_row returns
ProcessedRow(raw) ==
    /\ pc = "process_file"
    /\ nlines < MaxLines
    /\ nlines' = nlines + 1
    /\ SchemaAccepts(raw)
    /\ LET res == process_row(DEVICE_SCHEMA(raw), tree) IN
       /\ ~res.raised
       /\ tree' = res.tree
       /\ file_total' = Add(file_total, res.rec)
       /\ last' = [kind |-> IF res.rec.ignored = 1 THEN "ignored" ELSE "merged",
                   file |-> path,
                   raw |-> raw, before |-> tree, res |-> res]
       /\ merged' = IF res.rec.ignored = 1 THEN merged
                    ELSE Record(merged, ModelDir(DEVICE_SCHEMA(raw)),
                                Triple(DEVICE_SCHEMA(raw)))
    /\ lineno' = lineno + 1
    /\ fieldnames' = HeaderOf(raw)
    /\ UNCHANGED <<pc, pending, path, total, attempts, outcome, returned,
                   batch>>

\* lines 103, 78 and 81-82: the reader is exhausted, process_file returns
\* and process adds its record to the total
EndOfFile ==
    /\ pc = "process_file"
    /\ total' = Add(total, file_total)
    /\ returned' = [returned EXCEPT ![path] = file_total]
    /\ outcome' = [outcome EXCEPT ![path] = "Done"]
    /\ pc' = "process"
    /\ path' = 0
    /\ fieldnames' = <<>>
    /\ lineno' = 0
    /\ file_total' = UpdateRecord
    /\ UNCHANGED <<tree, pending, nlines, attempts, last, merged, batch>>

\* lines 84-85: glob is exhausted, the total is printed
PrintTotal ==
    /\ pc = "process"
    /\ pending = {}
    /\ pc' = "done"
    /\ UNCHANGED <<tree, pending, path, fieldnames, lineno, nlines, file_total,
                   total, attempts, outcome, returned, last, merged, batch>>

\* the dicts the reader of the open file can yield next: DictReader reads
\* the header line when it is asked for the first data line
NextRows ==
    IF pc # "process_file" \/ nlines >= MaxLines THEN {}
    ELSE IF fieldnames = <<>> THEN RawRows
    ELSE {raw \in RawRows : ColumnsOf(raw) = Range(fieldnames)}

Next ==
    \/ \E f \in Files : OpenFile(f)
    \/ \E raw \in NextRows : InvalidRow(raw)
    \/ \E raw \in NextRows : FailedRow(raw)
    \/ \E raw \in NextRows : ProcessedRow(raw)
    \/ EndOfFile
    \/ PrintTotal

Spec == Init /\ [][Next]_vars

TypeOK ==
    /\ pc \in {"process", "process_file", "done"}
    /\ pending \subseteq Files
    /\ lineno \in 0 .. MaxLines

(* ----------------------- the script run twice ------------------------- *)

\* the dicts DictReader yields for the data lines under one header line
RowsOf(header) == {DictRow(header, cells) : cells \in Lines(header)}

\* what a file of n data lines can hold
FileContents(n) == UNION {[1 .. n -> RowsOf(header)] : header \in Headers}

\* what n files with at most budget data lines in all can hold
RECURSIVE Contents(_, _)
Contents(n, budget) ==
    IF n = 0 THEN {<<>>}
    ELSE UNION {{Append(rest, file) :
                    rest \in Contents(n - 1, budget - k),
                    file \in FileContents(k)} : k \in 0 .. budget}

\* to_process/ is fixed before the first run and the same for the second
InitTwice ==
    /\ tree \in StartTrees
    /\ pc = "process"
    /\ pending = Files
    /\ path = 0
    /\ fieldnames = <<>>
    /\ lineno = 0
    /\ nlines = 0
    /\ file_total = UpdateRecord
    /\ total = UpdateRecord
    /\ attempts = [f \in Files |-> 0]
    /\ outcome = [f \in Files |-> "pending"]
    /\ returned = [f \in Files |-> UpdateRecord]
    /\ last = NoRow
    /\ merged = [dir \in {} |-> {}]
    /\ \E files \in Contents(MaxFiles, MaxLines) :
          batch = [run |-> 1, mode |-> "first", files |-> files,
                   start |-> tree, first |-> EmptyTree]

\* line 75: glob yields the files in an order of its own on each run; the
\* files are numbered in the order of the first run
OpenAgain(f) ==
    /\ batch.run = 1 => \A g \in pending : f <= g
    /\ Open(f)

\* the dict the reader of the open file yields next, if any
ReplayRows ==
    IF pc = "process_file" /\ lineno < Len(batch.files[path])
    THEN {batch.files[path][lineno + 1]}
    ELSE {}

\* lines 103, 78 and 81-82, once every line of the file has been read
EndOfReplay ==
    /\ pc = "process_file"
    /\ lineno = Len(batch.files[path])
    /\ EndOfFile

\* line 164: the script is started again
Restart(mode, from) ==
    /\ pc = "done"
    /\ batch.run = 1
    /\ batch' = [batch EXCEPT !.run = 2, !.mode = mode, !.first = tree]
    /\ tree' = from
    /\ pc' = "process"
    /\ pending' = Files
    /\ nlines' = 0
    /\ total' = UpdateRecord
    /\ attempts' = [f \in Files |-> 0]
    /\ outcome' = [f \in Files |-> "pending"]
    /\ returned' = [f \in Files |-> UpdateRecord]
    /\ last' = NoRow
    /\ merged' = [dir \in {} |-> {}]
    /\ UNCHANGED <<path, fieldnames, lineno, file_total>>

\* the second run goes over the tree the first run left
RunAgain == Restart("again", tree)

\* the second run goes over a copy of the tree the first run started from
RunReordered == Restart("reordered", batch.start)

NextTwice ==
    \/ \E f \in Files : OpenAgain(f)
    \/ \E raw \in ReplayRows : InvalidRow(raw)
    \/ \E raw \in ReplayRows : FailedRow(raw)
    \/ \E raw \in ReplayRows : ProcessedRow(raw)
    \/ EndOfReplay
    \/ PrintTotal
    \/ RunAgain
    \/ RunReordered

SpecTwice == InitTwice /\ [][NextTwice]_vars

(* ------------------------- the last row, named ------------------------- *)

\* the last data line went through DEVICE_SCHEMA and process_row
RowReached == last.kind \in {"ignored", "merged", "failed"}

LastRow == DEVICE_SCHEMA(last.raw)

\* the row has every key of the schema
IsComplete(row) == SchemaKeySet \subseteq DOMAIN row

LastDir == ModelDir(LastRow)

Zero == [created |-> 0, updated |-> 0, ignored |-> 0]

NoEffect(res, before) ==
    /\ res.tree = before
    /\ res.scaffolds = 0
    /\ res.writes = 0

(* -------------------------------- C1 ----------------------------------- *)

\* C1: idempotence of process_row.  Whenever a row has been merged (its
\* integration approved, from whatever tree: the directory absent or
\* present with any contents), merging the same row again returns, leaves
\* every document as the first merge left it, reports created = updated = 0
\* and writes nothing.
C1_Idempotent ==
    last.kind = "merged" =>
        LET again == process_row(LastRow, last.res.tree) IN
        /\ ~again.raised
        /\ again.tree = last.res.tree
        /\ again.rec = Zero
        /\ again.writes = 0
        /\ again.scaffolds = 0

\* a first merge that scaffolded and wrote, and one that changed a document
\* that was there
C1_Witness ==
    /\ last.kind = "merged"
    /\ last.res.writes = 1
    /\ last.res.rec.updated = 1
    /\ last.res.tree # last.before

(* -------------------------------- C2 ----------------------------------- *)

\* C2: first-write-wins.  A field of a document that holds a truthy value
\* before a row is processed holds the same value after it, for each of the
\* eight fields, every document and every row.
C2_FirstWriteWins ==
    RowReached =>
        \A dir \in DOMAIN last.before : \A key \in InfoKeys :
            Truthy(last.before[dir][key]) =>
                /\ dir \in DOMAIN last.res.tree
                /\ last.res.tree[dir][key] = last.before[dir][key]

\* a merge of a row that carries a truthy value other than the truthy value
\* the document holds
C2_Witness ==
    /\ last.kind = "merged"
    /\ LastDir \in DOMAIN last.before
    /\ \E i \in DOMAIN FieldPairs :
          /\ Truthy(last.before[LastDir][FieldPairs[i][2]])
          /\ Truthy(LastRow[FieldPairs[i][1]])
          /\ LastRow[FieldPairs[i][1]] # last.before[LastDir][FieldPairs[i][2]]

(* -------------------------------- C3 ----------------------------------- *)

NoDuplicates(versions) ==
    \A i, j \in DOMAIN versions : versions[i] = versions[j] => i = j

\* the (software, hardware) record of a row: a key is there when the text
\* of the column is neither None nor empty
RecordOf(row) ==
    [software |-> IF row["sw_version"] \in {None, Str(EMPTY)}
                  THEN Absent ELSE row["sw_version"],
     hardware |-> IF row["hw_version"] \in {None, Str(EMPTY)}
                  THEN Absent ELSE row["hw_version"]]

\* the versions of the document of the last row before it was merged (the
\* template's when the directory was scaffolded for it)
VersionsBefore ==
    IF LastDir \in DOMAIN last.before
    THEN last.before[LastDir].versions
    ELSE TemplateInfo.versions

\* C3: version dedup.  No versions list of the tree holds two equal
\* entries; a merged row whose record is in the list leaves the list as it
\* is, and a merged row whose record is not in the list appends exactly that
\* record.
C3_VersionDedup ==
    /\ \A dir \in DOMAIN tree : NoDuplicates(tree[dir].versions)
    /\ last.kind = "merged" =>
          LET record == RecordOf(LastRow)
              after == last.res.tree[LastDir].versions
          IN  IF \E i \in DOMAIN VersionsBefore : VersionsBefore[i] = record
              THEN after = VersionsBefore
              ELSE after = Append(VersionsBefore, record)

\* (sw = 1.0, hw absent) followed by (sw absent, hw = rev2): two entries
C3_Witness ==
    /\ last.kind = "merged"
    /\ last.res.tree[LastDir].versions =
          <<[software |-> Str(V10), hardware |-> Absent],
            [software |-> Absent, hardware |-> Str(REV2)]>>
    /\ Len(VersionsBefore) = 1

(* -------------------------------- C4 ----------------------------------- *)

\* C4: a complete row whose integration is not in the catalog, or is wled
\* or fritz, is ignored: the record is (0, 0, 1), and the call checks no
\* directory, scaffolds nothing, reads nothing, writes nothing and leaves
\* the tree as it was.
C4_IgnoredNoSideEffects ==
    (/\ RowReached
     /\ IsComplete(LastRow)
     /\ \/ LastRow["integration"].v \notin INTEGRATIONS_INFO
        \/ LastRow["integration"].v \in {WLED, FRITZ}) =>
        /\ last.kind = "ignored"
        /\ last.res.rec = [created |-> 0, updated |-> 0, ignored |-> 1]
        /\ last.res.checks = 0
        /\ last.res.reads = 0
        /\ NoEffect(last.res, last.before)
        /\ tree = last.before

\* a wled row, which the catalog lists, was ignored
C4_Witness ==
    /\ last.kind = "ignored"
    /\ LastRow["integration"].v = WLED
    /\ WLED \in INTEGRATIONS_INFO

(* -------------------------------- C5 ----------------------------------- *)

\* a raw record the schema of the documentation rejects: a required column
\* is missing or a field fails its conversion
IsInvalid(raw) == ~IsComplete(raw) \/ ~SchemaAccepts(raw)

\* C5: no partial merge from an invalid row.  Processing a raw record that
\* lacks a required column or has a field the schema does not accept
\* scaffolds no directory, writes no document and leaves the tree as it was.
C5_NoPartialMerge ==
    (last.kind # "none" /\ IsInvalid(last.raw)) =>
        /\ NoEffect(last.res, last.before)
        /\ tree = last.before

(* -------------------------------- C6 ----------------------------------- *)

\* C6: process_file aborts on the first invalid row without rollback.  Once
\* an invalid row has been read, process_file has failed and reads no more
\* of the file, and every document the rows before it left is still there.
C6_AbortOnFirstInvalid ==
    (last.kind # "none" /\ IsInvalid(last.raw)) =>
        /\ outcome[last.file] = "Error"
        /\ path # last.file
        /\ \A dir \in DOMAIN last.before :
              dir \in DOMAIN tree /\ tree[dir] = last.before[dir]

(* -------------------------------- C7 ----------------------------------- *)

RECURSIVE SumReturned(_)
SumReturned(files) ==
    IF files = {} THEN Zero
    ELSE LET f == CHOOSE g \in files : TRUE
         IN  [created |-> returned[f].created + SumReturned(files \ {f}).created,
              updated |-> returned[f].updated + SumReturned(files \ {f}).updated,
              ignored |-> returned[f].ignored + SumReturned(files \ {f}).ignored]

\* C7: batch isolation.  No file is attempted twice, the total is always
\* the pointwise sum of the records of the files that completed without
\* error, and when the batch ends every file has been attempted once and
\* has ended in Done or Error.
C7_BatchIsolation ==
    /\ \A f \in Files : attempts[f] <= 1
    /\ total = SumReturned({f \in Files : outcome[f] = "Done"})
    /\ pc = "done" =>
          \A f \in Files : attempts[f] = 1 /\ outcome[f] \in {"Done", "Error"}

\* the batch ended: a file failed after one of its rows had been counted,
\* and a file after it completed with a count
C7_Witness ==
    /\ pc = "done"
    /\ \E f, g \in Files :
          /\ f < g
          /\ outcome[f] = "Error"
          /\ outcome[g] = "Done"
          /\ returned[g] # Zero
          /\ total = returned[g]

(* -------------------------------- C8 ----------------------------------- *)

\* C8: document identity.  The rows merged into one document all have the
\* same (integration, manufacturer, model).
C8_DocumentIdentity ==
    \A dir \in DOMAIN merged : Cardinality(merged[dir]) <= 1

(* -------------------------------- C9 ----------------------------------- *)

\* C9: outcome of an approved row.  When the directory did not exist the
\* record is (1, 0, 0); when it existed the record is (0, 1, 0) if the
\* document changed and (0, 0, 0) if it did not; created and updated are
\* never both 1.
C9_Outcome ==
    last.kind = "merged" =>
        LET rec == last.res.rec IN
        /\ ~(rec.created = 1 /\ rec.updated = 1)
        /\ IF ~Exists(last.before, LastDir)
           THEN rec = [created |-> 1, updated |-> 0, ignored |-> 0]
           ELSE rec = [created |-> 0,
                       updated |-> IF last.res.tree[LastDir] # last.before[LastDir]
                                   THEN 1 ELSE 0,
                       ignored |-> 0]

\* a document that was there got a new field or version
C9_Witness ==
    /\ last.kind = "merged"
    /\ Exists(last.before, LastDir)
    /\ last.res.rec = [created |-> 0, updated |-> 1, ignored |-> 0]
    /\ last.res.tree[LastDir] # last.before[LastDir]

(* -------------------------------- C10 ---------------------------------- *)

FlagsSet(row, info) ==
    \A key \in BoolKeys : row[key] = Bool(TRUE) => info[key] = Bool(TRUE)

\* the row of the last data line was merged into a directory made for it
FreshMerge == last.kind = "merged" /\ ~Exists(last.before, LastDir)

\* the entry_type a document gets from a row
EntryTypeOf(row) ==
    IF row["entry_type"] \in {None, Str(EMPTY)}
    THEN Str(DEVICE) ELSE row["entry_type"]

\* C10 as claimed: the document of a fresh directory has the row's
\* manufacturer and model in its four text fields, the row's entry_type or
\* device when the row has none, the flags the row has true, and the row's
\* version record as its only version.
C10_FreshDocument_AsClaimed ==
    FreshMerge =>
        LET row == LastRow
            info == last.res.tree[LastDir]
        IN  /\ last.res.rec = [created |-> 1, updated |-> 0, ignored |-> 0]
            /\ info.manufacturer_raw = row["manufacturer"]
            /\ info.manufacturer_name = row["manufacturer"]
            /\ info.model_raw = row["model"]
            /\ info.model_name = row["model"]
            /\ FlagsSet(row, info)
            /\ info.entry_type = EntryTypeOf(row)
            /\ info.versions = <<RecordOf(row)>>

\* the text a field of a fresh document gets from a row
Filled(value) == IF value = Str(EMPTY) THEN None ELSE value

\* C10 as amended: the four text fields hold the row's manufacturer and
\* model when these are not empty and null when they are; the rest as
\* claimed.
C10_FreshDocument ==
    FreshMerge =>
        LET row == LastRow
            info == last.res.tree[LastDir]
        IN  /\ last.res.rec = [created |-> 1, updated |-> 0, ignored |-> 0]
            /\ info.manufacturer_raw = Filled(row["manufacturer"])
            /\ info.manufacturer_name = Filled(row["manufacturer"])
            /\ info.model_raw = Filled(row["model"])
            /\ info.model_name = Filled(row["model"])
            /\ FlagsSet(row, info)
            /\ info.entry_type = EntryTypeOf(row)
            /\ info.versions = <<RecordOf(row)>>

\* sw_version None and hw_version rev2 into a fresh directory
C10_Witness ==
    /\ FreshMerge
    /\ LastRow["sw_version"] = None
    /\ last.res.tree[LastDir].versions =
          <<[software |-> Absent, hardware |-> Str(REV2)]>>
    /\ last.res.tree[LastDir].entry_type = Str(DEVICE)

(* -------------------------------- C11 ---------------------------------- *)

\* the row with entry_type set to device
WithDevice(row) == [row EXCEPT !["entry_type"] = Str(DEVICE)]

\* C11: entry-type defaulting.  A row whose entry_type is None (the text
\* None, or a cell the line lacks) or empty does to every tree what the
\* same row with entry_type device does: same tree, same record, same
\* exception if any.
C11_EntryTypeDefault ==
    (/\ RowReached
     /\ "entry_type" \in DOMAIN LastRow
     /\ LastRow["entry_type"] \in {None, Str(EMPTY)}) =>
        last.res = process_row(WithDevice(LastRow), last.before)

\* a row with an empty entry_type cell gave a document its entry_type
C11_Witness ==
    /\ last.kind = "merged"
    /\ last.raw["entry_type"] = Str(EMPTY)
    /\ last.res.tree[LastDir].entry_type = Str(DEVICE)
    /\ last.res.writes = 1

(* -------------------------------- C12 ---------------------------------- *)

\* C12: validator rejection.  A raw record that lacks one of the nine keys
\* or has a field that fails its conversion is rejected by the schema: it
\* never becomes a row that process_row gets.
C12_ValidatorRejects ==
    (last.kind # "none" /\ IsInvalid(last.raw)) => last.kind = "invalid"

(* -------------------------------- C13 ---------------------------------- *)

\* the cell is the text True, letter for letter
IsLiteralTrue(cell) == cell = [t |-> "str", v |-> <<"T", "r", "u", "e">>]

\* C13: boolean strictness.  A raw record whose three str columns are
\* texts and that has no surplus cell is accepted whatever its flag cells
\* hold; a flag of the row is true exactly when its cell is the text True,
\* and false otherwise; and a document made for the row gets the flag
\* exactly when the cell is the text True.
C13_BooleanStrictness ==
    (/\ last.kind # "none"
     /\ RestKey \notin DOMAIN last.raw
     /\ \A key \in StrKeys \cap DOMAIN last.raw : last.raw[key].t = "str") =>
        /\ last.kind # "invalid"
        /\ \A key \in BoolKeys \cap DOMAIN last.raw :
              /\ LastRow[key] = [t |-> "bool", v |-> IsLiteralTrue(last.raw[key])]
              /\ (last.kind = "merged" /\ ~Exists(last.before, LastDir)) =>
                    last.res.tree[LastDir][key] =
                        IF IsLiteralTrue(last.raw[key])
                        THEN [t |-> "bool", v |-> TRUE] ELSE None

\* has_via_device = true in lower case: the row was merged as one with
\* the flag false
C13_Witness ==
    /\ last.kind = "merged"
    /\ last.raw["has_via_device"] = Str(LOWER_TRUE_TEXT)
    /\ LastRow["has_via_device"] = Bool(FALSE)
    /\ ~Exists(last.before, LastDir)
    /\ last.res.tree[LastDir].has_via_device = None

(* -------------------------------- C15 ---------------------------------- *)

\* C15: writes happen only on creation or change.  A merge that wrote the
\* document either scaffolded it in the same call or left it different from
\* what it was; a merge that reports (0,0,0) made no write and no copytree
\* and left the whole tree as it was.
C15_WritesOnlyOnChange ==
    last.kind = "merged" =>
        /\ last.res.writes = 1 =>
              \/ last.res.scaffolds = 1
              \/ last.res.tree[LastDir] # last.before[LastDir]
        /\ last.res.rec = Zero =>
              /\ last.res.writes = 0
              /\ last.res.scaffolds = 0
              /\ last.res.tree = last.before
              /\ tree = last.before

\* an Unchanged merge into an existing document
C15_Witness ==
    /\ last.kind = "merged"
    /\ last.res.rec = Zero
    /\ LastDir \in DOMAIN last.before
    /\ last.res.writes = 0

(* -------------------------------- C16 ---------------------------------- *)

\* the versions list of a directory; a directory without a document has
\* none
VersionsOf(t, dir) == IF dir \in DOMAIN t THEN t[dir].versions ELSE <<>>

\* C16: versions are append-only in first-seen order.  For every row and
\* every document, the versions list before the call is a prefix of the
\* list after it; the list grows by at most one entry, which is the record
\* of the row, is put last, and was not in the list before.
C16_VersionsAppendOnly ==
    RowReached =>
        \A dir \in DOMAIN last.res.tree :
            LET old == VersionsOf(last.before, dir)
                new == VersionsOf(last.res.tree, dir)
            IN  /\ Len(old) <= Len(new)
                /\ Len(new) <= Len(old) + 1
                /\ \A i \in DOMAIN old : new[i] = old[i]
                /\ Len(new) = Len(old) + 1 =>
                      /\ dir = LastDir
                      /\ new[Len(new)] = RecordOf(LastRow)
                      /\ \A i \in DOMAIN old : old[i] # RecordOf(LastRow)

\* a second combination was put after the first one
C16_Witness ==
    /\ last.kind = "merged"
    /\ Len(VersionsOf(last.before, LastDir)) >= 1
    /\ Len(VersionsOf(last.res.tree, LastDir)) =
          Len(VersionsOf(last.before, LastDir)) + 1

(* -------------------------------- C17 ---------------------------------- *)

Flags == {"has_via_device", "has_suggested_area", "has_configuration_url"}

\* the value of a field of the document the merge starts from: the one in
\* the tree, or the one of the template
FieldBefore(key) ==
    IF LastDir \in DOMAIN last.before THEN last.before[LastDir][key]
    ELSE TemplateInfo[key]

\* the row carries true for the flag; a row without the key carries nothing
Carried(key) ==
    key \in DOMAIN last.raw /\ last.raw[key] = Str(TRUE_TEXT)

\* C18: capability flags accumulate as a logical or and false is never
\* recorded.  After a merge a flag is true exactly when it was true before
\* or the row carried true; a row that does not carry true leaves the flag
\* as it was (null stays null); a flag that was true stays true.
C18_FlagsAccumulate ==
    last.kind = "merged" =>
        \A key \in Flags :
            LET b == FieldBefore(key)
                a == last.res.tree[LastDir][key]
            IN  /\ (a = Bool(TRUE)) <=> (b = Bool(TRUE) \/ Carried(key))
                /\ ~Carried(key) => a = b
                /\ b = Bool(TRUE) => a = Bool(TRUE)

\* a flag a curated document held as false was set by a row carrying true,
\* while a flag the row carried as false stayed null
C18_Witness ==
    /\ last.kind = "merged"
    /\ LastDir \in DOMAIN last.before
    /\ last.before[LastDir].has_via_device = Bool(FALSE)
    /\ Carried("has_via_device")
    /\ last.res.tree[LastDir].has_via_device = Bool(TRUE)
    /\ last.before[LastDir].has_configuration_url = None
    /\ last.raw["has_configuration_url"] = Str(FALSE_TEXT)
    /\ last.res.tree[LastDir].has_configuration_url = None

(* -------------------------------- C14 ---------------------------------- *)

\* C14: batch-level idempotence.  A second run over the same input files,
\* on the tree the first run left, leaves the tree as it found it
\* (no document changed, no directory made) and counts no created and no
\* updated, in whatever order glob yields the files and whether or not a
\* file fails.
C14_BatchIdempotent ==
    (batch.run = 2 /\ batch.mode = "again") =>
        /\ tree = batch.first
        /\ total.created = 0
        /\ total.updated = 0

(* -------------------------------- C19 ---------------------------------- *)

\* every row of the files has the nine keys and no other, passes the
\* schema and names an approved integration
AllValidApproved(files) ==
    \A f \in DOMAIN files : \A i \in DOMAIN files[f] :
        /\ DOMAIN files[f][i] = SchemaKeySet
        /\ SchemaAccepts(files[f][i])
        /\ IsApproved(DEVICE_SCHEMA(files[f][i]))

VersionSet(info) == {info.versions[i] : i \in DOMAIN info.versions}

\* C19: the order-independent part.  The same valid approved rows merged
\* in two orders from the same tree give the same directories, the same
\* set of version records in each document and the same three flags.
C19_OrderIndependent ==
    (/\ batch.run = 2
     /\ batch.mode = "reordered"
     /\ pc = "done"
     /\ AllValidApproved(batch.files)) =>
        /\ DOMAIN tree = DOMAIN batch.first
        /\ \A dir \in DOMAIN tree \cap DOMAIN batch.first :
              /\ VersionSet(tree[dir]) = VersionSet(batch.first[dir])
              /\ \A key \in Flags : tree[dir][key] = batch.first[dir][key]

====
